---------------------------- MODULE Spec2Model ----------------------------
(***************************************************************************)
(* State-machine model of src/app.js, the diet and fitness log: the entry  *)
(* list, the user settings, their persisted copies in localStorage, the    *)
(* quick-entry, settings, delete, clear, export and restore handlers, and  *)
(* the metrics computed from the entry list.                               *)
(*                                                                         *)
(* Representation.                                                         *)
(*  - A JavaScript scalar is a record [t, n, s]: t is the kind, n the      *)
(*    numeric value, s the characters of a string.  Numbers are fixed      *)
(*    point with one decimal digit: Num(795) is 79.5, Num(300) is 30.      *)
(*  - A string is the sequence of its characters, each a one-character     *)
(*    TLA+ string, so that parseFloat, parseInt, Number and trim are       *)
(*    computed character by character.                                     *)
(*  - A date string "YYYY-MM-DD" is the tuple <<y, m, d>> of its three     *)
(*    fields; <<>> is the empty (or missing) date.  A Date object is the   *)
(*    number of days since 2024-01-01 in local time.                       *)
(*  - A JSON text is [wellFormed, doc]: whether JSON.parse accepts it and  *)
(*    the document it denotes.                                             *)
(***************************************************************************)
EXTENDS Integers, Sequences, FiniteSets, TLC

(***************************************************************************)
(* JavaScript scalars                                                      *)
(***************************************************************************)
Num(n) == [t |-> "number", n |-> n, s |-> <<>>]

NaN == [t |-> "nan", n |-> 0, s |-> <<>>]

Str(s) == [t |-> "string", n |-> 0, s |-> s]

Null == [t |-> "null", n |-> 0, s |-> <<>>]

Undefined == [t |-> "undefined", n |-> 0, s |-> <<>>]

\* typeof v
TypeOf(v) ==
  CASE v.t \in {"number", "nan"} -> "number"
    [] v.t = "string" -> "string"
    [] v.t = "null" -> "object"
    [] OTHER -> "undefined"

\* isNaN(v) for the values the code applies it to (numbers and null)
IsNaN(v) == v.t \in {"nan", "undefined"}

\* ToBoolean(v): 0, NaN, "", null and undefined are falsy
Truthy(v) ==
  CASE v.t = "number" -> v.n # 0
    [] v.t = "string" -> v.s # <<>>
    [] OTHER -> FALSE

\* a || b
OrElse(a, b) == IF Truthy(a) THEN a ELSE b

\* typeof v === "number" && !isNaN(v)
IsRealNumber(v) == TypeOf(v) = "number" /\ ~IsNaN(v)

(***************************************************************************)
(* Strings: trim, parseFloat, parseInt, Number                             *)
(***************************************************************************)
Digits == <<"0", "1", "2", "3", "4", "5", "6", "7", "8", "9">>

IsDigit(c) == \E i \in 1..10 : Digits[i] = c

DigitVal(c) == (CHOOSE i \in 1..10 : Digits[i] = c) - 1

IsSpace(c) == c = " "

RECURSIVE TrimStart(_)
TrimStart(s) ==
  IF s # <<>> /\ IsSpace(Head(s)) THEN TrimStart(Tail(s)) ELSE s

RECURSIVE TrimEnd(_)
TrimEnd(s) ==
  IF s # <<>> /\ IsSpace(s[Len(s)]) THEN TrimEnd(SubSeq(s, 1, Len(s) - 1)) ELSE s

\* String.prototype.trim
Trim(s) == TrimEnd(TrimStart(s))

\* The longest prefix of s made of digits
RECURSIVE DigitPrefix(_)
DigitPrefix(s) ==
  IF s # <<>> /\ IsDigit(Head(s)) THEN <<Head(s)>> \o DigitPrefix(Tail(s)) ELSE <<>>

\* The value of a digit string (0 for the empty string)
RECURSIVE DigitsValue(_)
DigitsValue(ds) ==
  IF ds = <<>> THEN 0 ELSE 10 * DigitsValue(SubSeq(ds, 1, Len(ds) - 1)) + DigitVal(ds[Len(ds)])

\* The numeric prefix of s: [ok, value in tenths, number of characters used].
\* withFraction tells whether a fractional part is read (parseFloat, Number)
\* or not (parseInt).  Fraction digits after the first are read and dropped.
NumericPrefix(s, withFraction) ==
  LET signed == s # <<>> /\ Head(s) \in {"-", "+"}
      sign == IF s # <<>> /\ Head(s) = "-" THEN -1 ELSE 1
      body == IF signed THEN Tail(s) ELSE s
      ip == DigitPrefix(body)
      rest == SubSeq(body, Len(ip) + 1, Len(body))
      dot == withFraction /\ rest # <<>> /\ Head(rest) = "."
      fp == IF dot THEN DigitPrefix(Tail(rest)) ELSE <<>>
      frac == IF fp = <<>> THEN 0 ELSE DigitVal(fp[1])
      okk == ip # <<>> \/ fp # <<>>
      used == (IF signed THEN 1 ELSE 0) + Len(ip)
              + (IF dot /\ (ip # <<>> \/ fp # <<>>) THEN 1 + Len(fp) ELSE 0)
  IN [ok |-> okk, value |-> sign * (10 * DigitsValue(ip) + frac), used |-> used]

\* parseFloat(s): leading white space skipped, the longest numeric prefix, else NaN
ParseFloat(s) ==
  LET p == NumericPrefix(TrimStart(s), TRUE)
  IN IF p.ok THEN Num(p.value) ELSE NaN

\* parseInt(s, 10): leading white space skipped, the longest integer prefix, else NaN
ParseInt(s) ==
  LET p == NumericPrefix(TrimStart(s), FALSE)
  IN IF p.ok THEN Num(p.value) ELSE NaN

\* Number(v): the whole trimmed string must be numeric; "" is 0, null is 0
ToNumber(v) ==
  CASE v.t \in {"number", "nan"} -> v
    [] v.t = "null" -> Num(0)
    [] v.t = "undefined" -> NaN
    [] OTHER ->
         LET tr == Trim(v.s)
             p == NumericPrefix(tr, TRUE)
         IN IF tr = <<>> THEN Num(0)
            ELSE IF p.ok /\ p.used = Len(tr) THEN Num(p.value) ELSE NaN

(***************************************************************************)
(* Dates: formatDateToYMD, dateFromYMD, string order                       *)
(***************************************************************************)
IsLeap(y) == (y % 4 = 0 /\ y % 100 # 0) \/ y % 400 = 0

DaysInYear(y) == IF IsLeap(y) THEN 366 ELSE 365

DaysInMonth(y, m) ==
  IF m = 2 THEN (IF IsLeap(y) THEN 29 ELSE 28)
  ELSE IF m \in {4, 6, 9, 11} THEN 30 ELSE 31

\* Days from 2024-01-01 to the first day of year y
RECURSIVE YearStart(_)
YearStart(y) ==
  IF y = 2024 THEN 0
  ELSE IF y > 2024 THEN YearStart(y - 1) + DaysInYear(y - 1)
  ELSE YearStart(y + 1) - DaysInYear(y)

\* Days from the first day of year y to the first day of its month m
RECURSIVE MonthStart(_, _)
MonthStart(y, m) == IF m <= 1 THEN 0 ELSE MonthStart(y, m - 1) + DaysInMonth(y, m - 1)

\* new Date(y, m - 1, d): the day number of a local date (d may overflow the month)
MakeDate(y, m, d) == YearStart(y) + MonthStart(y, m) + d - 1

RECURSIVE YmdInYear(_, _, _)
YmdInYear(y, m, k) ==
  IF k >= DaysInMonth(y, m) THEN YmdInYear(y, m + 1, k - DaysInMonth(y, m))
  ELSE <<y, m, k + 1>>

RECURSIVE YmdFrom(_, _)
YmdFrom(y, k) ==
  IF k < 0 THEN YmdFrom(y - 1, k + DaysInYear(y - 1))
  ELSE IF k >= DaysInYear(y) THEN YmdFrom(y + 1, k - DaysInYear(y))
  ELSE YmdInYear(y, 1, k)

\* formatDateToYMD(date): year, zero-padded month and day of a Date
formatDateToYMD(date) == YmdFrom(2024, date)

\* getTodayDateString()
getTodayDateString(now) == formatDateToYMD(now)

\* dateFromYMD(ymd): the empty string gives the current date
dateFromYMD(ymd, now) == IF ymd = <<>> THEN now ELSE MakeDate(ymd[1], ymd[2], ymd[3])

\* new Date("YYYY-MM-DD"), as used by the sort of the restore
DateParse(ymd) == MakeDate(ymd[1], ymd[2], ymd[3])

\* a > b on date strings: the order of the zero-padded characters
DateStrGreater(a, b) ==
  \/ a[1] > b[1]
  \/ a[1] = b[1] /\ a[2] > b[2]
  \/ a[1] = b[1] /\ a[2] = b[2] /\ a[3] > b[3]

(***************************************************************************)
(* Array.prototype.sort with a numeric comparator (stable)                 *)
(***************************************************************************)
\* ps is a sequence of <<key, item>>; the result is ordered by ascending key,
\* items of equal key in their original order
RECURSIVE SortPairs(_)
SortPairs(ps) ==
  IF ps = <<>> THEN <<>>
  ELSE LET rest == SortPairs(SubSeq(ps, 1, Len(ps) - 1))
           x == ps[Len(ps)]
           k == Cardinality({i \in 1..Len(rest) : rest[i][1] <= x[1]})
       IN SubSeq(rest, 1, k) \o <<x>> \o SubSeq(rest, k + 1, Len(rest))

Items(ps) == [i \in 1..Len(ps) |-> ps[i][2]]

\* A wrong sort: the list is left in the order it has
KeepOrder(list, now) == list

\* [...list].sort((a, b) => dateFromYMD(a.date) - dateFromYMD(b.date))
SortByDateAsc(list, now) ==
  Items(SortPairs([i \in 1..Len(list) |-> <<dateFromYMD(list[i].date, now), list[i]>>]))

\* list.sort((a, b) => new Date(b.date) - new Date(a.date))
SortByDateDesc(list) ==
  Items(SortPairs([i \in 1..Len(list) |-> <<0 - DateParse(list[i].date), list[i]>>]))

(***************************************************************************)
(* Metrics                                                                 *)
(***************************************************************************)
RECURSIVE LatestWeightLoop(_, _, _, _, _)
LatestWeightLoop(list, i, limitDateStr, latestDate, latestWeight) ==
  IF i > Len(list) THEN latestWeight
  ELSE LET entry == list[i]
           skip == \/ ~IsRealNumber(entry.weight)
                   \/ limitDateStr # <<>> /\ DateStrGreater(entry.date, limitDateStr)
           take == latestDate = <<>> \/ DateStrGreater(entry.date, latestDate)
       IN IF ~skip /\ take
          THEN LatestWeightLoop(list, i + 1, limitDateStr, entry.date, entry.weight)
          ELSE LatestWeightLoop(list, i + 1, limitDateStr, latestDate, latestWeight)

\* A wrong getLatestWeightUpToDate: no entry is looked at
NoLatestWeight(list, limitDateStr) == Null

\* getLatestWeightUpToDate(limitDateStr) over the entry list
getLatestWeightUpToDate(list, limitDateStr) ==
  LatestWeightLoop(list, 1, limitDateStr, <<>>, Null)

\* Activity labels (the Hebrew labels of the source, transliterated)
ActWalking == <<"halicha">>

ActRunning == <<"ritza">>

ActCycling == <<"rechiva">>

ActGym == <<"chadar kosher">>

ActOther == <<"acher">>

\* getMetForActivity(activityType), in tenths
getMetForActivity(activityType) ==
  CASE activityType = Str(ActWalking) -> 40
    [] activityType = Str(ActRunning) -> 100
    [] activityType = Str(ActCycling) -> 80
    [] OTHER -> 50

\* A wrong calculateEntryCalories: the guards on the weight and on the sign of
\* the result are left out
CaloriesUnguarded(entry, list) ==
  LET duration == IF IsRealNumber(entry.durationMinutes) THEN entry.durationMinutes ELSE Null
      weightToUse == IF IsRealNumber(entry.weight) THEN entry.weight
                     ELSE getLatestWeightUpToDate(list, entry.date)
      met == getMetForActivity(OrElse(entry.activityType, Str(<<>>)))
  IN IF ~Truthy(duration) \/ duration.n <= 0 THEN Null
     ELSE IF TypeOf(weightToUse) # "number" THEN Null
     ELSE Num(met * weightToUse.n * duration.n)

\* calculateEntryCalories(entry): Null, or the calories as Num(c) with c the
\* product met * weight * duration of the three fixed-point values, that is
\* the calories in units of 1/60000 kcal
calculateEntryCalories(entry, list) ==
  LET duration == IF IsRealNumber(entry.durationMinutes) THEN entry.durationMinutes ELSE Null
      weightToUse == IF IsRealNumber(entry.weight) THEN entry.weight
                     ELSE getLatestWeightUpToDate(list, entry.date)
      met == getMetForActivity(OrElse(entry.activityType, Str(<<>>)))
      calories == met * weightToUse.n * duration.n
  IN IF ~Truthy(duration) \/ duration.n <= 0 THEN Null
     ELSE IF ~Truthy(weightToUse) \/ IsNaN(weightToUse) \/ weightToUse.n <= 0 THEN Null
     ELSE IF calories > 0 THEN Num(calories) ELSE Null

\* The distinct dates of the list, in order of first occurrence (new Set(...))
RECURSIVE UniqueDates(_)
UniqueDates(list) ==
  IF list = <<>> THEN <<>>
  ELSE LET front == UniqueDates(SubSeq(list, 1, Len(list) - 1))
           d == list[Len(list)].date
       IN IF \E i \in 1..Len(front) : front[i] = d THEN front ELSE Append(front, d)

\* Array.from(uniqueDates).sort((a, b) => dateFromYMD(b) - dateFromYMD(a))
SortDatesDesc(dates, now) ==
  Items(SortPairs([i \in 1..Len(dates) |-> <<0 - dateFromYMD(dates[i], now), dates[i]>>]))

\* A wrong loop: the days before the most recent one are not counted
StreakNoLoop(cursor, dates, streak) == streak

RECURSIVE StreakLoop(_, _, _)
StreakLoop(cursor, dates, streak) ==
  LET prevStr == formatDateToYMD(cursor - 1)
  IN IF \E i \in 1..Len(dates) : dates[i] = prevStr
     THEN StreakLoop(cursor - 1, dates, streak + 1)
     ELSE streak

\* calculateCurrentStreak()
calculateCurrentStreak(list, now) ==
  IF list = <<>> THEN 0
  ELSE LET uniqueDates == UniqueDates(list)
           sortedDatesDesc == SortDatesDesc(uniqueDates, now)
           todayStr == getTodayDateString(now)
           yesterdayStr == formatDateToYMD(now - 1)
           mostRecentLogDate == sortedDatesDesc[1]
       IN IF mostRecentLogDate # todayStr /\ mostRecentLogDate # yesterdayStr THEN 0
          ELSE StreakLoop(dateFromYMD(mostRecentLogDate, now), uniqueDates, 1)

\* entries.filter(e => typeof e.weight === "number" && !isNaN(e.weight))
RECURSIVE EntriesWithWeight(_)
EntriesWithWeight(list) ==
  IF list = <<>> THEN <<>>
  ELSE IF IsRealNumber(Head(list).weight)
       THEN <<Head(list)>> \o EntriesWithWeight(Tail(list))
       ELSE EntriesWithWeight(Tail(list))

\* The category of the BMI num/den (den > 0)
BmiCategory(num, den) ==
  IF 10 * num < 185 * den THEN "underweight"
  ELSE IF num < 25 * den THEN "normal"
  ELSE IF num < 30 * den THEN "overweight"
  ELSE "obese"

NoBmi == [some |-> FALSE, num |-> 0, den |-> 1, category |-> ""]

\* calculateCurrentBmi(): NoBmi for null, else the value num/den and its
\* category.  weight / (heightM * heightM) with weight in tenths of a kg and
\* the height in tenths of a cm is (100000 * weight) / (height * height).
calculateCurrentBmi(list, settings, now) ==
  IF list = <<>> THEN NoBmi
  ELSE IF TypeOf(settings.heightCm) # "number" \/ IsNaN(settings.heightCm)
          \/ settings.heightCm.n <= 0 THEN NoBmi
  ELSE LET entriesWithWeight == EntriesWithWeight(list)
           sortedByDate == SortByDateAsc(entriesWithWeight, now)
           latest == sortedByDate[Len(sortedByDate)]
           num == 100000 * latest.weight.n
           den == settings.heightCm.n * settings.heightCm.n
       IN IF entriesWithWeight = <<>> THEN NoBmi
          ELSE [some |-> TRUE, num |-> num, den |-> den, category |-> BmiCategory(num, den)]

\* The decimal digits of a natural number
RECURSIVE DigitsOf(_)
DigitsOf(n) ==
  IF n < 10 THEN <<Digits[n + 1]>> ELSE Append(DigitsOf(n \div 10), Digits[(n % 10) + 1])

\* Number.prototype.toFixed(1) of a value held in tenths
ToFixed1(n) ==
  LET a == IF n < 0 THEN 0 - n ELSE n
  IN (IF n < 0 THEN <<"-">> ELSE <<>>) \o DigitsOf(a \div 10) \o <<".">> \o DigitsOf(a % 10)

\* The text shown for a value that is absent
Dash == <<"--">>

\* A wrong difference: the latest weight minus the earliest
WeightDiffReversed(earliest, latest) == latest.weight.n - earliest.weight.n

\* const diff = earliest.weight - latest.weight
WeightDiff(earliest, latest) == earliest.weight.n - latest.weight.n

\* refreshDashboardSummary(): the texts of currentWeightDisplay and totalLossDisplay
refreshDashboardSummary(list, now) ==
  IF list = <<>> THEN [currentWeight |-> Dash, totalLoss |-> Dash]
  ELSE LET entriesWithWeight == EntriesWithWeight(list)
           sortedByDate == SortByDateAsc(entriesWithWeight, now)
           earliest == sortedByDate[1]
           latest == sortedByDate[Len(sortedByDate)]
       IN IF entriesWithWeight = <<>> THEN [currentWeight |-> Dash, totalLoss |-> Dash]
          ELSE [currentWeight |-> ToFixed1(latest.weight.n),
                totalLoss |-> ToFixed1(WeightDiff(earliest, latest))]

(***************************************************************************)
(* JSON and localStorage                                                   *)
(***************************************************************************)
\* JSON.stringify of a scalar: NaN is written as null; an undefined property
\* is left out, and reads back as undefined
JsonScalar(v) == IF v.t = "nan" THEN Null ELSE v

JsonEntry(e) ==
  [date |-> e.date,
   weight |-> JsonScalar(e.weight),
   activityType |-> JsonScalar(e.activityType),
   notes |-> JsonScalar(e.notes),
   durationMinutes |-> JsonScalar(e.durationMinutes)]

JsonEntries(list) == [i \in 1..Len(list) |-> JsonEntry(list[i])]

JsonSettings(s) ==
  [firstName |-> JsonScalar(s.firstName),
   heightCm |-> JsonScalar(s.heightCm),
   weighInDay |-> JsonScalar(s.weighInDay),
   profilePicUrl |-> JsonScalar(s.profilePicUrl)]

DefaultSettings ==
  [firstName |-> Str(<<>>), heightCm |-> Null, weighInDay |-> Null, profilePicUrl |-> Str(<<>>)]

\* A localStorage key that was never written
NoItem == [has |-> FALSE, entries |-> <<>>, settings |-> DefaultSettings]

\* saveEntries(list): the value of the key dietEntries
saveEntries(list) == [has |-> TRUE, entries |-> JsonEntries(list), settings |-> DefaultSettings]

\* saveSettings(settings): the value of the key dietUserSettings
saveSettings(settings) == [has |-> TRUE, entries |-> <<>>, settings |-> JsonSettings(settings)]

\* loadEntries(): the stored array, [] when the key is missing
loadEntries(item) == IF ~item.has THEN <<>> ELSE item.entries

\* loadSettings(): the stored record normalised, the defaults when the key is missing
loadSettings(item) ==
  IF ~item.has THEN DefaultSettings
  ELSE LET parsed == item.settings
       IN [firstName |-> OrElse(parsed.firstName, Str(<<>>)),
           heightCm |-> OrElse(ToNumber(parsed.heightCm), Null),
           weighInDay |-> IF TypeOf(parsed.weighInDay) = "number" THEN parsed.weighInDay ELSE Null,
           profilePicUrl |-> OrElse(parsed.profilePicUrl, Str(<<>>))]

(***************************************************************************)
(* The store: the two globals and the two localStorage keys                *)
(***************************************************************************)
MakeStore(list, settings, itemE, itemS) ==
  [entries |-> list, userSettings |-> settings, storedEntries |-> itemE, storedSettings |-> itemS]

\* A wrong set: the entry a date has in the map is kept
MapSetKeepFirst(map, e) ==
  IF \E i \in 1..Len(map) : map[i].date = e.date THEN map ELSE Append(map, e)

\* A wrong set: the entry is pushed whether or not its date is in the map
MapSetAppend(map, e) == Append(map, e)

\* A wrong set: the empty notes and the null weight of the new entry are
\* filled from the entry it replaces
MapSetInherit(map, e) ==
  IF \E i \in 1..Len(map) : map[i].date = e.date
  THEN [i \in 1..Len(map) |->
          IF map[i].date = e.date
          THEN [e EXCEPT !.notes = IF e.notes = Str(<<>>) THEN map[i].notes ELSE e.notes,
                         !.weight = IF e.weight = Null THEN map[i].weight ELSE e.weight]
          ELSE map[i]]
  ELSE Append(map, e)

\* Map.prototype.set(e.date, e) on a map kept as the sequence of its values in
\* insertion order: an existing key keeps its place
MapSet(map, e) ==
  IF \E i \in 1..Len(map) : map[i].date = e.date
  THEN [i \in 1..Len(map) |-> IF map[i].date = e.date THEN e ELSE map[i]]
  ELSE Append(map, e)

\* A wrong merge: the map does not start from the existing entries
MapOfEntriesEmpty(list) == <<>>

\* entries.forEach((e) => logsMap.set(e.date, e))
RECURSIVE MapOfEntries(_)
MapOfEntries(list) ==
  IF list = <<>> THEN <<>>
  ELSE MapSet(MapOfEntries(SubSeq(list, 1, Len(list) - 1)), list[Len(list)])

\* The weight of an imported record: a number as it is, a non-blank string
\* through parseFloat, anything else (and a string that parses to NaN) null
CoerceWeight(w) ==
  IF TypeOf(w) = "number" THEN w
  ELSE IF TypeOf(w) = "string" /\ Trim(w.s) # <<>>
       THEN (IF ~IsNaN(ParseFloat(w.s)) THEN ParseFloat(w.s) ELSE Null)
       ELSE Null

\* The durationMinutes of an imported record: as the weight, through parseInt
CoerceDuration(d) ==
  IF TypeOf(d) = "number" THEN d
  ELSE IF TypeOf(d) = "string" /\ Trim(d.s) # <<>>
       THEN (IF ~IsNaN(ParseInt(Trim(d.s))) THEN ParseInt(Trim(d.s)) ELSE Null)
       ELSE Null

\* The entry stored for an imported record
CoerceLog(inLog) ==
  [date |-> inLog.date,
   weight |-> CoerceWeight(inLog.weight),
   activityType |-> OrElse(inLog.activityType, Str(<<>>)),
   notes |-> OrElse(inLog.notes, Str(<<>>)),
   durationMinutes |-> CoerceDuration(inLog.durationMinutes)]

\* parsed.logs.forEach(...): a null element and a record without a date are skipped
RECURSIVE MergeLogs(_, _)
MergeLogs(map, logs) ==
  IF logs = <<>> THEN map
  ELSE LET inLog == Head(logs)
       IN IF ~inLog.isObject \/ inLog.date = <<>>
          THEN MergeLogs(map, Tail(logs))
          ELSE MergeLogs(MapSet(map, CoerceLog(inLog)), Tail(logs))

\* What a handler leaves behind: the store, the alert shown, whether it threw
Outcome(st, alert, threw) == [store |-> st, alert |-> alert, threw |-> threw]

\* restoreFullBackupJsonFromText after JSON.parse: reading a property of null
\* throws; else the settings and the logs of the parsed object are taken
restoreParsed(parsed, st) ==
  IF ~parsed.isObject THEN Outcome(st, "none", TRUE)
  ELSE LET settings2 == IF parsed.userSettings.present THEN parsed.userSettings.val
                        ELSE st.userSettings
           itemS2 == IF parsed.userSettings.present THEN saveSettings(settings2)
                     ELSE st.storedSettings
           merged == SortByDateDesc(MergeLogs(MapOfEntries(st.entries), parsed.logs.items))
           entries2 == IF parsed.logs.kind = "array" THEN merged ELSE st.entries
           itemE2 == IF parsed.logs.kind = "array" THEN saveEntries(entries2)
                     ELSE st.storedEntries
       IN Outcome(MakeStore(entries2, settings2, itemE2, itemS2), "restoreDone", FALSE)

\* A wrong restore: JSON.parse is not in a try block, so that what it throws
\* ends the handler with no alert
restoreWithoutCatch(text, st) ==
  IF ~text.wellFormed THEN Outcome(st, "none", TRUE)
  ELSE restoreParsed(text.doc, st)

\* restoreFullBackupJsonFromText(jsonText)
restoreFullBackupJsonFromText(text, st) ==
  IF ~text.wellFormed THEN Outcome(st, "invalidJson", FALSE)
  ELSE restoreParsed(text.doc, st)

\* restoreFromText(): the text pasted into the prompt (cancelled: no text)
restoreFromText(cancelled, text, st) ==
  IF cancelled THEN Outcome(st, "none", FALSE)
  ELSE IF ~text.wellFormed THEN Outcome(st, "decodeError", FALSE)
  ELSE IF text.doc.isObject /\ text.doc.logs.kind # "absent"
       THEN restoreFullBackupJsonFromText(text, st)
       ELSE Outcome(st, "notBackup", FALSE)

\* The JSON text of exportFullBackupJson()
exportFullBackupJson(st) ==
  [wellFormed |-> TRUE,
   doc |-> [isObject |-> TRUE,
            userSettings |-> [present |-> TRUE, val |-> JsonSettings(st.userSettings)],
            logs |-> [kind |-> "array",
                      items |-> [i \in 1..Len(st.entries) |->
                                   JsonEntry(st.entries[i]) @@ [isObject |-> TRUE]]]]]

\* A wrong filter: no entry is kept
WithoutAny(list, dateVal) == <<>>

\* entries.filter(e => e.date !== dateVal)
RECURSIVE WithoutDate(_, _)
WithoutDate(list, dateVal) ==
  IF list = <<>> THEN <<>>
  ELSE IF Head(list).date # dateVal
       THEN <<Head(list)>> \o WithoutDate(Tail(list), dateVal)
       ELSE WithoutDate(Tail(list), dateVal)

\* The submit handler of entryForm; form holds the values of the inputs
entrySubmit(form, st, now) ==
  LET weightRaw == Trim(form.weight)
      hasWeight == weightRaw # <<>>
      parsedWeight == IF hasWeight THEN ParseFloat(weightRaw) ELSE Null
      dateVal == IF form.date # <<>> THEN form.date ELSE getTodayDateString(now)
      d == ParseInt(Trim(form.duration))
      durationMinutes == IF Trim(form.duration) # <<>> /\ ~IsNaN(d) /\ d.n > 0 THEN d ELSE Null
      latest == getLatestWeightUpToDate(st.entries, dateVal)
      weightVal == IF hasWeight THEN parsedWeight
                   ELSE IF IsRealNumber(latest) THEN latest ELSE Null
      newEntry == [date |-> dateVal,
                   weight |-> weightVal,
                   activityType |-> Str(form.activityType),
                   notes |-> Str(form.notes),
                   durationMinutes |-> durationMinutes]
      entries2 == Append(WithoutDate(st.entries, dateVal), newEntry)
  IN IF hasWeight /\ (~Truthy(parsedWeight) \/ IsNaN(parsedWeight) \/ parsedWeight.n <= 0)
     THEN Outcome(st, "invalidWeight", FALSE)
     ELSE Outcome(MakeStore(entries2, st.userSettings, saveEntries(entries2), st.storedSettings),
                  "saved", FALSE)

\* The submit handler of settingsForm: the fields of userSettings are assigned in place
settingsSubmit(form, st) ==
  LET settings2 == [firstName |-> Str(form.firstName),
                    heightCm |-> ToNumber(Str(form.heightCm)),
                    weighInDay |-> IF form.weighInDay # <<>> THEN ToNumber(Str(form.weighInDay))
                                   ELSE Null,
                    profilePicUrl |-> Str(Trim(form.profilePic))]
  IN Outcome(MakeStore(st.entries, settings2, st.storedEntries, saveSettings(settings2)),
             "settingsSaved", FALSE)

\* A wrong removal: the entry at index i goes and those after it with it
RemoveFrom(list, i) == SubSeq(list, 1, i - 1)

\* entries.filter(e => e !== entryToDelete): the entry object at index i goes
RemoveAt(list, i) == SubSeq(list, 1, i - 1) \o SubSeq(list, i + 1, Len(list))

\* deleteEntry(entryToDelete), entryToDelete being the entry at index i of the list
deleteEntry(i, confirmed, st) ==
  IF ~confirmed THEN Outcome(st, "none", FALSE)
  ELSE LET entries2 == RemoveAt(st.entries, i)
       IN Outcome(MakeStore(entries2, st.userSettings, saveEntries(entries2), st.storedSettings),
                  "none", FALSE)

ClearedSettings ==
  [firstName |-> Str(<<>>), heightCm |-> Null, weighInDay |-> Null, profilePicUrl |-> Undefined]

\* The onclick handler of clearDataButton
clearData(confirmed, st) ==
  IF ~confirmed THEN Outcome(st, "none", FALSE)
  ELSE Outcome(MakeStore(<<>>, ClearedSettings, saveEntries(<<>>), saveSettings(ClearedSettings)),
               "none", FALSE)

(***************************************************************************)
(* Export delivery                                                         *)
(***************************************************************************)
\* No export run: nothing tried, nothing pending, nothing thrown
IdleDelivery ==
  [stage |-> "idle", shareSupported |-> FALSE, thrown |-> FALSE,
   tried |-> <<>>, failed |-> {}, succeeded |-> "none"]

\* fallbackToClipboard(blob) up to its first await: the copy is pending
fallbackToClipboard(d) ==
  [d EXCEPT !.stage = "copying", !.tried = Append(@, "clipboard")]

\* The second attempt of smartExport: a FileReader is started, and the read
\* is pending; if starting it throws, the catch falls back to the clipboard
startDownload(d, readThrows) ==
  IF readThrows
  THEN fallbackToClipboard([d EXCEPT !.tried = Append(@, "download"),
                                     !.failed = @ \cup {"download"}])
  ELSE [d EXCEPT !.stage = "reading", !.tried = Append(@, "download")]

\* smartExport(blob, fileName, title) up to its first suspension.  env is what
\* the browser does: "fileThrows" (new File or canShare throws), "share"
\* (canShare says yes), "noShare", "noShareReadThrows"
smartExport(env) ==
  IF env = "fileThrows"
  THEN fallbackToClipboard([IdleDelivery EXCEPT !.thrown = TRUE])
  ELSE IF env = "share"
       THEN [IdleDelivery EXCEPT !.stage = "sharing", !.shareSupported = TRUE,
                                 !.tried = <<"share">>]
       ELSE startDownload(IdleDelivery, env = "noShareReadThrows")

\* A wrong smartExport: no return after the share, the download follows it
shareSettledNoReturn(d, outcome) ==
  startDownload([d EXCEPT !.succeeded = IF outcome = "ok" THEN "share" ELSE @,
                          !.failed = IF outcome = "ok" THEN @ ELSE @ \cup {"share"}],
                outcome = "rejectedReadThrows")

\* smartExport after await navigator.share(...): "ok" returns, a rejection
\* ("rejected", "rejectedReadThrows") goes on to the download
shareSettled(d, outcome) ==
  IF outcome = "ok" THEN [d EXCEPT !.stage = "done", !.succeeded = "share"]
  ELSE startDownload([d EXCEPT !.failed = @ \cup {"share"}], outcome = "rejectedReadThrows")

\* reader.onload ("clicked": the anchor was clicked, "clickThrows": the click
\* or the anchor threw) and reader.onerror ("readError")
readerSettled(d, outcome) ==
  IF outcome = "clicked" THEN [d EXCEPT !.stage = "done", !.succeeded = "download"]
  ELSE fallbackToClipboard([d EXCEPT !.failed = @ \cup {"download"}])

\* fallbackToClipboard after await navigator.clipboard.writeText(textData)
clipboardSettled(d, ok) ==
  [d EXCEPT !.stage = "done",
            !.succeeded = IF ok THEN "clipboard" ELSE "none",
            !.failed = IF ok THEN @ ELSE @ \cup {"clipboard"}]

(***************************************************************************)
(* Bounds and inputs                                                       *)
(***************************************************************************)
\* The day the clock starts at, in days since 2024-01-01 (60 is 2024-03-01,
\* the day after a leap day)
StartDay == 60

\* How many days the clock may advance
MaxDayAdvance == 1

\* The longest logs array of an imported backup
MaxLogs == 2

\* How many file reads may be in progress at once
MaxReads == 1

\* The strings typed into the inputs and found in the backups
Txt80 == <<"8", "0">>

Txt79p5 == <<"7", "9", ".", "5">>

TxtAbc == <<"a", "b", "c">>

Txt12abc == <<"1", "2", "a", "b", "c">>

Txt80abc == <<"8", "0", "a", "b", "c">>

Txt30 == <<"3", "0">>

Txt170 == <<"1", "7", "0">>

TxtMinus5 == <<"-", "5">>

Txt0 == <<"0">>

Txt3 == <<"3">>

TxtUrl == <<" ", "u", " ">>

Yesterday0 == formatDateToYMD(StartDay - 1)

Today0 == formatDateToYMD(StartDay)

EntryForm(w, dt, a, nt, du) ==
  [weight |-> w, date |-> dt, activityType |-> a, notes |-> nt, duration |-> du]

\* The values submitted through the quick-entry form; the date <<>> is the
\* date input left empty
EntryForms ==
  {EntryForm(Txt80, dt, ActWalking, <<"x">>, Txt30) : dt \in {Yesterday0, Today0}}
  \cup {EntryForm(<<>>, <<>>, <<>>, <<>>, <<>>)}
  \cup {EntryForm(w, Today0, ActRunning, <<>>, Txt30) : w \in {TxtAbc, Txt0, TxtMinus5}}
  \cup {EntryForm(Txt80abc, Today0, ActWalking, <<"x">>, Txt30)}

SettingsForm(f, h, w, p) == [firstName |-> f, heightCm |-> h, weighInDay |-> w, profilePic |-> p]

\* The values submitted through the settings form
SettingsForms ==
  {SettingsForm(<<"D">>, Txt170, Txt3, <<>>),
   SettingsForm(<<>>, TxtAbc, <<>>, TxtUrl)}

LogRecord(dt, w, a, nt, du) ==
  [isObject |-> TRUE, date |-> dt, weight |-> w, activityType |-> a, notes |-> nt,
   durationMinutes |-> du]

\* A null element of a logs array
NullItem ==
  [isObject |-> FALSE, date |-> <<>>, weight |-> Undefined, activityType |-> Undefined,
   notes |-> Undefined, durationMinutes |-> Undefined]

\* The records of the logs arrays of the imported backups
LogItems ==
  {LogRecord(Today0, Str(Txt79p5), Undefined, Undefined, Undefined),
   LogRecord(Yesterday0, Str(TxtAbc), Str(ActRunning), Str(<<"i">>), Str(Txt30)),
   LogRecord(Today0, Str(Txt12abc), Str(ActWalking), Null, Str(TxtAbc)),
   LogRecord(<<>>, Num(800), Str(ActRunning), Str(<<"i">>), Num(300))}

\* The sequences of up to n different elements of S (a record that is twice in
\* a logs array sets the same entry twice)
RECURSIVE SeqsUpTo(_, _)
SeqsUpTo(S, n) ==
  IF n = 0 THEN {<<>>}
  ELSE LET shorter == SeqsUpTo(S, n - 1)
           Fresh(q) == {y \in S : \A i \in 1..Len(q) : q[i] # y}
       IN shorter \cup UNION {{Append(q, x) : x \in Fresh(q)} : q \in shorter}

NoSettings == [present |-> FALSE, val |-> DefaultSettings]

\* The userSettings of an imported backup
SomeSettings ==
  [present |-> TRUE,
   val |-> [firstName |-> Undefined, heightCm |-> Str(Txt170), weighInDay |-> Null,
            profilePicUrl |-> Str(<<"u">>)]]

JsonText(us, kind, items) ==
  [wellFormed |-> TRUE,
   doc |-> [isObject |-> TRUE, userSettings |-> us, logs |-> [kind |-> kind, items |-> items]]]

\* A text JSON.parse rejects
Malformed ==
  [wellFormed |-> FALSE,
   doc |-> [isObject |-> FALSE, userSettings |-> NoSettings,
            logs |-> [kind |-> "absent", items |-> <<>>]]]

\* The text "null"
NullText ==
  [wellFormed |-> TRUE,
   doc |-> [isObject |-> FALSE, userSettings |-> NoSettings,
            logs |-> [kind |-> "absent", items |-> <<>>]]]

\* The texts a user pastes: malformed, null, objects without a logs array,
\* and backups with up to MaxLogs records
InputTexts ==
  {Malformed, NullText, JsonText(NoSettings, "absent", <<>>), JsonText(SomeSettings, "object", <<>>)}
  \cup {JsonText(NoSettings, "array", items) : items \in SeqsUpTo(LogItems, MaxLogs)}
  \cup {JsonText(SomeSettings, "array", items) : items \in SeqsUpTo(LogItems, 1)}
  \cup {JsonText(NoSettings, "array", <<NullItem>>)}

\* The files picked in the file input
FileTexts ==
  {Malformed, NullText, JsonText(SomeSettings, "absent", <<>>),
   JsonText(SomeSettings, "array",
            <<LogRecord(Today0, Str(Txt79p5), Undefined, Undefined, Undefined)>>)}

\* The quick entries made while a file is read
FileEntryForms ==
  {EntryForm(Txt80, dt, ActWalking, <<"x">>, Txt30) : dt \in {Yesterday0, Today0}}

\* How many consecutive days, ending the day after StartDay, the entries of
\* the specification of the metrics are spread over
MetricDays == 4

\* What a backup holds for one day in the specification of the metrics: no
\* record (a null element), or a record with or without a weight (which may
\* be 0) and a duration (which may be negative)
MetricOptions ==
  {NullItem,
   LogRecord(<<>>, Undefined, Undefined, Undefined, Undefined),
   LogRecord(<<>>, Num(800), Str(ActWalking), Undefined, Num(300)),
   LogRecord(<<>>, Num(0), Str(ActRunning), Undefined, Num(300)),
   LogRecord(<<>>, Undefined, Str(ActCycling), Undefined, Num(300)),
   LogRecord(<<>>, Num(750), Str(ActOther), Undefined, Num(-100))}

\* The backup holding f[i] for the i-th day of the window
MetricBackup(us, f) ==
  JsonText(us, "array",
           [i \in 1..MetricDays |->
              IF f[i].isObject
              THEN [f[i] EXCEPT !.date = formatDateToYMD(StartDay + 1 - MetricDays + i)]
              ELSE f[i]])

MetricSettingsForms ==
  {SettingsForm(<<>>, Txt170, <<>>, <<>>), SettingsForm(<<>>, <<>>, Txt3, <<>>)}

(***************************************************************************)
(* State                                                                   *)
(***************************************************************************)
VARIABLES
  entries,        \* the global entries
  userSettings,   \* the global userSettings
  storedEntries,  \* localStorage key dietEntries
  storedSettings, \* localStorage key dietUserSettings
  today,          \* the current day of the clock
  reads,          \* the FileReaders whose read is in progress: the text of
                  \* the file, and (history) the entries when it was chosen
  selected,       \* history: the entries as they were when the file whose
                  \* read the last handler completed was chosen, else <<>>
  lastAlert,      \* the alert shown by the last handler, "none" if it showed none
  delivery,       \* the export run: its stage, the strategies tried, failed, succeeded
  last            \* history: the last handler run, the kind of its input, the
                  \* logs array it was given, the entries it replaced or removed

vars ==
  <<entries, userSettings, storedEntries, storedSettings, today, reads, selected, lastAlert,
    delivery, last>>

Store == MakeStore(entries, userSettings, storedEntries, storedSettings)

Commit(out) ==
  /\ entries' = out.store.entries
  /\ userSettings' = out.store.userSettings
  /\ storedEntries' = out.store.storedEntries
  /\ storedSettings' = out.store.storedSettings
  /\ lastAlert' = out.alert

History(op, input, logs, replaced) ==
  [op |-> op, input |-> input, logs |-> logs, replaced |-> replaced]

\* The logs array of a text, <<>> when the text holds none
TextLogs(text) ==
  IF text.wellFormed /\ text.doc.isObject /\ text.doc.logs.kind = "array"
  THEN text.doc.logs.items
  ELSE <<>>

\* The dates of the records of a logs array
LogDates(logs) ==
  {logs[i].date : i \in {j \in 1..Len(logs) : logs[j].isObject /\ logs[j].date # <<>>}}

\* What the user answered to a confirm()
Answer(confirmed) == IF confirmed THEN "confirmed" ELSE "declined"

InDates(D) == LET Test(e) == e.date \in D IN SelectSeq(entries, Test)

\* The state after construction: both globals loaded from an empty localStorage
Init ==
  /\ entries = loadEntries(NoItem)
  /\ userSettings = loadSettings(NoItem)
  /\ storedEntries = NoItem
  /\ storedSettings = NoItem
  /\ today = StartDay
  /\ reads = <<>>
  /\ selected = <<>>
  /\ delivery = IdleDelivery
  /\ lastAlert = "none"
  /\ last = History("init", "", <<>>, <<>>)

(***************************************************************************)
(* Actions                                                                 *)
(***************************************************************************)
\* The quick-entry form is submitted
EntrySubmit(form) ==
  /\ \E out \in {entrySubmit(form, Store, today)} :
       \E dateVal \in {IF form.date # <<>> THEN form.date ELSE getTodayDateString(today)} :
         /\ Commit(out)
         /\ last' = History("entrySubmit", "form", <<>>,
                            IF out.alert = "saved" THEN InDates({dateVal}) ELSE <<>>)
  /\ selected' = <<>>
  /\ UNCHANGED <<today, reads, delivery>>

\* The settings form is submitted
SettingsSubmit(form) ==
  /\ \E out \in {settingsSubmit(form, Store)} : Commit(out)
  /\ last' = History("settingsSubmit", "form", <<>>, <<>>)
  /\ selected' = <<>>
  /\ UNCHANGED <<today, reads, delivery>>

\* The delete button of the row of entries[i] is clicked
DeleteEntry(i, confirmed) ==
  /\ i \in 1..Len(entries)
  /\ \E out \in {deleteEntry(i, confirmed, Store)} : Commit(out)
  /\ last' = History("deleteEntry", Answer(confirmed), <<>>,
                     IF confirmed THEN <<entries[i]>> ELSE <<>>)
  /\ selected' = <<>>
  /\ UNCHANGED <<today, reads, delivery>>

\* The clear-data button is clicked
ClearData(confirmed) ==
  /\ \E out \in {clearData(confirmed, Store)} : Commit(out)
  /\ last' = History("clearData", Answer(confirmed), <<>>,
                     IF confirmed THEN entries ELSE <<>>)
  /\ selected' = <<>>
  /\ UNCHANGED <<today, reads, delivery>>

\* What the browser may do when an export starts
ExportEnvs == {"fileThrows", "share", "noShare", "noShareReadThrows"}

\* The download-backup button is clicked: exportFullBackupJson() runs up to
\* the first suspension of smartExport.  One export run is followed at a time
ExportFullBackupJson(env) ==
  /\ delivery.stage \in {"idle", "done"}
  /\ delivery' = smartExport(env)
  /\ last' = History("exportFullBackupJson", env, <<>>, <<>>)
  /\ lastAlert' = "none"
  /\ selected' = <<>>
  /\ UNCHANGED <<entries, userSettings, storedEntries, storedSettings, today, reads>>

\* The export-CSV button is clicked: exportToCsv() shows an alert when there
\* is no entry, else runs up to the first suspension of smartExport
ExportToCsv(env) ==
  /\ delivery.stage \in {"idle", "done"}
  /\ delivery' = IF entries = <<>> THEN IdleDelivery ELSE smartExport(env)
  /\ last' = History("exportToCsv", env, <<>>, <<>>)
  /\ lastAlert' = IF entries = <<>> THEN "noData" ELSE "none"
  /\ selected' = <<>>
  /\ UNCHANGED <<entries, userSettings, storedEntries, storedSettings, today, reads>>

\* The promise of navigator.share settles
ShareSettled(outcome) ==
  /\ delivery.stage = "sharing"
  /\ delivery' = shareSettled(delivery, outcome)
  /\ last' = History("shareSettled", outcome, <<>>, <<>>)
  /\ lastAlert' = "none"
  /\ selected' = <<>>
  /\ UNCHANGED <<entries, userSettings, storedEntries, storedSettings, today, reads>>

\* The FileReader of the download fires onload or onerror
DownloadSettled(outcome) ==
  /\ delivery.stage = "reading"
  /\ delivery' = readerSettled(delivery, outcome)
  /\ last' = History("downloadSettled", outcome, <<>>, <<>>)
  /\ lastAlert' = "none"
  /\ selected' = <<>>
  /\ UNCHANGED <<entries, userSettings, storedEntries, storedSettings, today, reads>>

\* The promise of navigator.clipboard.writeText settles
ClipboardSettled(ok) ==
  /\ delivery.stage = "copying"
  /\ delivery' = clipboardSettled(delivery, ok)
  /\ last' = History("clipboardSettled", IF ok THEN "ok" ELSE "rejected", <<>>, <<>>)
  /\ lastAlert' = IF ok THEN "copied" ELSE "copyFailed"
  /\ selected' = <<>>
  /\ UNCHANGED <<entries, userSettings, storedEntries, storedSettings, today, reads>>

\* restoreInput.onchange: a FileReader starts reading the chosen file
RestoreInputChange(text) ==
  /\ Len(reads) < MaxReads
  /\ reads' = Append(reads, [text |-> text, entries |-> entries])
  /\ last' = History("restoreInputChange", "file", <<>>, <<>>)
  /\ lastAlert' = "none"
  /\ selected' = <<>>
  /\ UNCHANGED <<entries, userSettings, storedEntries, storedSettings, today, delivery>>

\* The history of a restore: whether the text given was cancelled, malformed
\* or JSON, its logs array, and the entries of the dates of that array
RestoreHistory(op, cancelled, text) ==
  History(op,
          IF cancelled THEN "cancelled" ELSE IF text.wellFormed THEN "json" ELSE "malformed",
          IF cancelled THEN <<>> ELSE TextLogs(text),
          IF cancelled THEN <<>> ELSE InDates(LogDates(TextLogs(text))))

\* A wrong reader.onload: the file is merged into the entries as they were
\* when it was chosen
ReaderOnloadStale(k) ==
  /\ k \in 1..Len(reads)
  /\ \E out \in {restoreFullBackupJsonFromText(reads[k].text,
                     MakeStore(reads[k].entries, userSettings, storedEntries, storedSettings))} :
       Commit(out) /\ last' = RestoreHistory("readerOnload", FALSE, reads[k].text)
  /\ reads' = RemoveAt(reads, k)
  /\ selected' = reads[k].entries
  /\ UNCHANGED <<today, delivery>>

\* reader.onload of the k-th read in progress
ReaderOnload(k) ==
  /\ k \in 1..Len(reads)
  /\ \E out \in {restoreFullBackupJsonFromText(reads[k].text, Store)} :
       Commit(out) /\ last' = RestoreHistory("readerOnload", FALSE, reads[k].text)
  /\ reads' = RemoveAt(reads, k)
  /\ selected' = reads[k].entries
  /\ UNCHANGED <<today, delivery>>

\* restoreFromText(): a text is pasted into the prompt, or the prompt is cancelled
RestoreFromText(cancelled, text) ==
  /\ \E out \in {restoreFromText(cancelled, text, Store)} :
       Commit(out) /\ last' = RestoreHistory("restoreFromText", cancelled, text)
  /\ selected' = <<>>
  /\ UNCHANGED <<today, reads, delivery>>

\* The page is loaded again: both globals are read back from localStorage
PageLoad ==
  /\ entries' = loadEntries(storedEntries)
  /\ userSettings' = loadSettings(storedSettings)
  /\ reads' = <<>>
  /\ delivery' = IdleDelivery
  /\ lastAlert' = "none"
  /\ last' = History("pageLoad", "", <<>>, <<>>)
  /\ selected' = <<>>
  /\ UNCHANGED <<storedEntries, storedSettings, today>>

\* Midnight passes
Tick ==
  /\ today < StartDay + MaxDayAdvance
  /\ today' = today + 1
  /\ UNCHANGED <<entries, userSettings, storedEntries, storedSettings, reads, selected,
                  lastAlert, delivery, last>>

\* The texts that may be pasted: the input texts and the backup of the current state
PasteTexts == InputTexts \cup {exportFullBackupJson(Store)}

\* The handlers that run to completion in one event, the clock standing still
Next ==
  \/ \E form \in EntryForms : EntrySubmit(form)
  \/ \E form \in SettingsForms : SettingsSubmit(form)
  \/ \E i \in 1..Len(entries), confirmed \in BOOLEAN : DeleteEntry(i, confirmed)
  \/ \E confirmed \in BOOLEAN : ClearData(confirmed)
  \/ \E text \in PasteTexts : RestoreFromText(FALSE, text)
  \/ RestoreFromText(TRUE, Malformed)
  \/ PageLoad

Spec == Init /\ [][Next]_vars

\* The import of a file, whose read completes in a later event, with the
\* handlers that may run in between
NextFile ==
  \/ \E text \in FileTexts : RestoreInputChange(text)
  \/ \E k \in 1..Len(reads) : ReaderOnload(k)
  \/ \E text \in FileTexts : RestoreFromText(FALSE, text)
  \/ \E form \in FileEntryForms : EntrySubmit(form)
  \/ \E form \in SettingsForms : SettingsSubmit(form)
  \/ \E i \in 1..Len(entries) : DeleteEntry(i, TRUE)
  \/ PageLoad

SpecFile == Init /\ [][NextFile]_vars

\* The exports, whose delivery goes on over later events, with the handlers
\* that may run in between
NextExport ==
  \/ \E env \in ExportEnvs : ExportFullBackupJson(env)
  \/ \E env \in ExportEnvs : ExportToCsv(env)
  \/ \E outcome \in {"ok", "rejected", "rejectedReadThrows"} : ShareSettled(outcome)
  \/ \E outcome \in {"clicked", "clickThrows", "readError"} : DownloadSettled(outcome)
  \/ \E ok \in BOOLEAN : ClipboardSettled(ok)
  \/ \E form \in FileEntryForms : EntrySubmit(form)
  \/ \E form \in SettingsForms : SettingsSubmit(form)
  \/ \E i \in 1..Len(entries), confirmed \in BOOLEAN : DeleteEntry(i, confirmed)
  \/ \E confirmed \in BOOLEAN : ClearData(confirmed)
  \/ \E text \in FileTexts : RestoreFromText(FALSE, text)

SpecExport == Init /\ [][NextExport]_vars

\* The metrics are functions of the entries, the settings and the clock: their
\* specification starts from the store a fresh page holds after the restore of
\* a backup, with every choice of records for the days of the window, and then
\* lets the settings be saved and the clock advance
InitMetrics ==
  \E us \in {NoSettings, SomeSettings}, f \in [1..MetricDays -> MetricOptions] :
    \E out \in {restoreFullBackupJsonFromText(MetricBackup(us, f),
                     MakeStore(loadEntries(NoItem), loadSettings(NoItem), NoItem, NoItem))} :
      /\ entries = out.store.entries
      /\ userSettings = out.store.userSettings
      /\ storedEntries = out.store.storedEntries
      /\ storedSettings = out.store.storedSettings
      /\ today = StartDay
      /\ reads = <<>>
      /\ selected = <<>>
      /\ delivery = IdleDelivery
      /\ lastAlert = out.alert
      /\ last = History("init", "", <<>>, <<>>)

NextMetrics ==
  \/ \E form \in MetricSettingsForms : SettingsSubmit(form)
  \/ ClearData(TRUE)
  \/ Tick

SpecMetrics == InitMetrics /\ [][NextMetrics]_vars

(***************************************************************************)
(* Properties                                                              *)
(***************************************************************************)
\* The handlers that import a backup
RestoreOps == {"restoreFromText", "readerOnload"}

\* The last step imported a text that JSON.parse accepts
ImportedJson == last.op \in RestoreOps /\ last.input = "json"

\* No two elements of the list have the same date
DistinctDates(list) ==
  \A i, j \in 1..Len(list) : i # j => list[i].date # list[j].date

\* The field of a record is missing: the key is not there, or holds null
Missing(v) == v = Undefined \/ v = Null

\* A string that, blanks at its ends apart, is a number as a whole
IsNumericString(v) == TypeOf(v) = "string" /\ Trim(v.s) # <<>> /\ ~IsNaN(ToNumber(v))

\* The index of the last record of a logs array that has the date d
LastLogFor(logs, d) ==
  CHOOSE k \in 1..Len(logs) :
    /\ logs[k].isObject /\ logs[k].date = d
    /\ \A m \in (k + 1)..Len(logs) : ~(logs[m].isObject /\ logs[m].date = d)

\* C1: after any sequence of quick-entry submissions, imports, deletes and
\* clear-all from the empty store, the entries (in memory and as persisted)
\* hold at most one entry per date.
C1_OneEntryPerDate ==
  DistinctDates(entries) /\ DistinctDates(storedEntries.entries)

\* C1 witness: an import has just replaced the entry of a date while another
\* date has an entry too
C1_Witness ==
  /\ ImportedJson /\ lastAlert = "restoreDone"
  /\ last.replaced # <<>>
  /\ Len(entries) = 2

\* C2: when a text that parses is imported, every entry whose date is not
\* among the dates of the logs of the text is still in the store afterwards
\* with every field as it was.
C2_ImportKeepsOtherDates ==
  [][(last'.op \in RestoreOps /\ last'.input = "json")
       => \A i \in 1..Len(entries) :
            entries[i].date \notin LogDates(last'.logs)
              => \E j \in 1..Len(entries') : entries'[j] = entries[i]]_vars

\* C2 witness: an import of records has run and the store holds an entry of a
\* date the import did not mention
C2_Witness ==
  /\ ImportedJson /\ lastAlert = "restoreDone"
  /\ LogDates(last.logs) # {}
  /\ \E i \in 1..Len(entries) : entries[i].date \notin LogDates(last.logs)

\* C3: when an imported record has a date that had a local entry, the entry
\* stored for that date is built from the imported record alone: a field the
\* record lacks is stored absent (weight, duration) or empty (activity, notes),
\* a field it has is stored from it, and nothing is taken from the old entry;
\* the weight "79.5" is stored as 79.5.
C3_ImportOverwritesWhole ==
  ImportedJson =>
    \A k \in 1..Len(last.replaced) :
      LET d == last.replaced[k].date
          r == last.logs[LastLogFor(last.logs, d)]
      IN \E i \in 1..Len(entries) :
           /\ entries[i].date = d
           /\ Missing(r.weight) => entries[i].weight = Null
           /\ Missing(r.durationMinutes) => entries[i].durationMinutes = Null
           /\ Missing(r.activityType) => entries[i].activityType = Str(<<>>)
           /\ Missing(r.notes) => entries[i].notes = Str(<<>>)
           /\ TypeOf(r.weight) = "number" => entries[i].weight = r.weight
           /\ TypeOf(r.durationMinutes) = "number"
                => entries[i].durationMinutes = r.durationMinutes
           /\ IsNumericString(r.weight) => entries[i].weight = ToNumber(r.weight)
           /\ IsNumericString(r.durationMinutes)
                => entries[i].durationMinutes = ToNumber(r.durationMinutes)
           /\ TypeOf(r.activityType) = "string" => entries[i].activityType = r.activityType
           /\ TypeOf(r.notes) = "string" => entries[i].notes = r.notes

\* C3 witness: the record {date, weight: "79.5"} was imported over the entry
\* {date, weight: 80, notes: "x"} and the store holds weight 79.5, notes ""
C3_Witness ==
  /\ ImportedJson
  /\ \E k \in 1..Len(last.replaced), i \in 1..Len(entries) :
       /\ last.replaced[k].weight = Num(800)
       /\ last.replaced[k].notes = Str(<<"x">>)
       /\ Missing(last.logs[LastLogFor(last.logs, last.replaced[k].date)].notes)
       /\ entries[i].date = last.replaced[k].date
       /\ entries[i].weight = Num(795)
       /\ entries[i].notes = Str(<<>>)

\* C4: when the text given to an import (a file read or a pasted text) is not
\* JSON, the import shows an error and the entries and the settings, in memory
\* and as persisted, are what they were before.
C4_MalformedImportChangesNothing ==
  [][(last'.op \in RestoreOps /\ last'.input = "malformed")
       => /\ lastAlert' \in {"invalidJson", "decodeError"}
          /\ UNCHANGED <<entries, userSettings, storedEntries, storedSettings>>]_vars

\* C4 witness: a file that is not JSON was read while the store held an entry
\* and the error was shown
C4_Witness ==
  /\ last.op = "readerOnload" /\ last.input = "malformed"
  /\ lastAlert = "invalidJson"
  /\ entries # <<>>

\* The set of the records of a list
Records(list) == {list[i] : i \in 1..Len(list)}

\* C5: exporting a backup and importing that backup, nothing else happening in
\* between, leaves the same set of entries and the same settings record.
C5_RoundTrip ==
  [][RestoreFromText(FALSE, exportFullBackupJson(Store))
       => /\ Records(entries') = Records(entries)
          /\ userSettings' = userSettings]_vars

\* C6: a date that has an entry keeps having one over every step, except the
\* step of a confirmed delete or of a confirmed clear-all.
C6_DatesStayUntilConfirmedRemoval ==
  [][\A i \in 1..Len(entries) :
       (\A j \in 1..Len(entries') : entries'[j].date # entries[i].date)
         => /\ last'.op \in {"deleteEntry", "clearData"}
            /\ last'.input = "confirmed"]_vars

\* C6 witness: a quick entry has replaced the entry of its date while another
\* date has an entry
C6_Witness ==
  /\ last.op = "entrySubmit" /\ lastAlert = "saved"
  /\ last.replaced # <<>>
  /\ Len(entries) = 2

\* The day of an entry, in days
DayOf(e) == dateFromYMD(e.date, today)

\* The entry has a recorded weight
HasWeight(e) == TypeOf(e.weight) = "number"

\* C7: calculateEntryCalories returns null for an entry whose duration is
\* absent or not positive, and for an entry with no weight of its own when no
\* entry of its day or before has one; a number it returns is above zero.
C7_CaloriesNoneOrPositive ==
  \A i \in 1..Len(entries) :
    LET e == entries[i]
        c == calculateEntryCalories(e, entries)
        noDuration == TypeOf(e.durationMinutes) # "number" \/ e.durationMinutes.n <= 0
        noWeight == /\ ~HasWeight(e)
                    /\ ~\E j \in 1..Len(entries) :
                          HasWeight(entries[j]) /\ DayOf(entries[j]) <= DayOf(e)
    IN /\ (noDuration \/ noWeight) => c = Null
       /\ c # Null => (TypeOf(c) = "number" /\ c.n > 0)

\* C7 witness: one entry with a duration has no weight to resolve and gets
\* null while a later entry gets a number
C7_Witness ==
  \E i, j \in 1..Len(entries) :
    /\ TypeOf(entries[i].durationMinutes) = "number" /\ entries[i].durationMinutes.n > 0
    /\ ~HasWeight(entries[i])
    /\ calculateEntryCalories(entries[i], entries) = Null
    /\ DayOf(entries[i]) < DayOf(entries[j])
    /\ calculateEntryCalories(entries[j], entries) # Null

\* The settings hold a height that is a positive number
HeightIsPositive == TypeOf(userSettings.heightCm) = "number" /\ userSettings.heightCm.n > 0

\* The entries with a recorded weight
WeightBearing == {i \in 1..Len(entries) : HasWeight(entries[i])}

\* C8: calculateCurrentBmi returns null when the height of the settings is
\* absent or not a positive number or when no entry has a recorded weight;
\* else its value is that of the weight of the entry of the latest date
\* among the entries with a recorded weight, over the square of the height.
C8_BmiFromLatestWeight ==
  LET bmi == calculateCurrentBmi(entries, userSettings, today)
  IN IF ~HeightIsPositive \/ WeightBearing = {}
     THEN bmi = NoBmi
     ELSE \E i \in WeightBearing :
            /\ \A j \in WeightBearing : DayOf(entries[j]) <= DayOf(entries[i])
            /\ bmi.some
            /\ bmi.num = 100000 * entries[i].weight.n
            /\ bmi.den = userSettings.heightCm.n * userSettings.heightCm.n

\* C8 witness: a BMI is returned while the entry of the latest date has no
\* weight and two earlier entries have different weights
C8_Witness ==
  /\ calculateCurrentBmi(entries, userSettings, today).some
  /\ \E i \in 1..Len(entries) :
       ~HasWeight(entries[i]) /\ \A j \in WeightBearing : DayOf(entries[j]) < DayOf(entries[i])
  /\ \E i, j \in WeightBearing : entries[i].weight # entries[j].weight

\* The days that have an entry
EntryDays == {DayOf(entries[i]) : i \in 1..Len(entries)}

\* The latest of the days that have an entry
MaxEntryDay == CHOOSE m \in EntryDays : \A d \in EntryDays : d <= m

\* The length of the run of days with an entry that ends at the latest one
RunLength ==
  CHOOSE k \in 1..Cardinality(EntryDays) :
    /\ \A n \in 0..(k - 1) : (MaxEntryDay - n) \in EntryDays
    /\ (MaxEntryDay - k) \notin EntryDays

\* C9: calculateCurrentStreak is 0 when the latest day with an entry is
\* neither today nor yesterday, else the length of the run of consecutive days
\* with an entry that ends at that day: the days {2 days ago} give 0, {today}
\* gives 1, {today, yesterday, the day before} give 3, {yesterday, 3 days
\* ago} give 1.
C9_StreakIsRunAtLatestDay ==
  LET streak == calculateCurrentStreak(entries, today)
  IN /\ EntryDays = {} => streak = 0
     /\ (EntryDays # {} /\ MaxEntryDay \notin {today, today - 1}) => streak = 0
     /\ (EntryDays # {} /\ MaxEntryDay \in {today, today - 1}) => streak = RunLength
     /\ EntryDays = {today - 2} => streak = 0
     /\ EntryDays = {today} => streak = 1
     /\ EntryDays = {today, today - 1, today - 2} => streak = 3
     /\ EntryDays = {today - 1, today - 3} => streak = 1

\* C9 witness: the entries are those of today, yesterday and the day before,
\* and the streak is 3
C9_Witness ==
  /\ EntryDays = {today, today - 1, today - 2}
  /\ calculateCurrentStreak(entries, today) = 3

\* C10: in an import, a record with a date whose weight or durationMinutes is
\* neither a number nor a numeric string is stored all the same, with that
\* field absent and its other fields as given; every record with a date is
\* stored and the records without a date are passed over.
C10_ImportCoercesFields ==
  (ImportedJson /\ lastAlert = "restoreDone") =>
    /\ \A i \in 1..Len(entries) : entries[i].date # <<>>
    /\ \A d \in LogDates(last.logs) :
         LET r == last.logs[LastLogFor(last.logs, d)]
         IN \E i \in 1..Len(entries) :
              /\ entries[i].date = d
              /\ (TypeOf(r.weight) # "number" /\ ~IsNumericString(r.weight))
                   => entries[i].weight = Null
              /\ (TypeOf(r.durationMinutes) # "number" /\ ~IsNumericString(r.durationMinutes))
                   => entries[i].durationMinutes = Null
              /\ TypeOf(r.activityType) = "string" => entries[i].activityType = r.activityType
              /\ TypeOf(r.notes) = "string" => entries[i].notes = r.notes

\* The weight typed into the form is not empty and is not a positive number
WeightIsInvalid(form) ==
  /\ Trim(form.weight) # <<>>
  /\ ~(IsNumericString(Str(form.weight)) /\ ToNumber(Str(form.weight)).n > 0)

\* C11: a quick-entry submission whose weight is not empty and is
\* non-numeric, zero or negative is rejected with a message, and the entries,
\* in memory and as persisted, are what they were.
C11_InvalidWeightRejected ==
  [][\A form \in EntryForms :
       (WeightIsInvalid(form) /\ last'.op = "entrySubmit" /\ EntrySubmit(form))
         => /\ lastAlert' = "invalidWeight"
            /\ UNCHANGED <<entries, storedEntries>>]_vars

\* The entries of 2024-01-01 with weight 80 and of 2024-01-08 with weight 78
WeekApart ==
  <<[date |-> <<2024, 1, 1>>, weight |-> Num(800), activityType |-> Str(<<>>),
     notes |-> Str(<<>>), durationMinutes |-> Null],
    [date |-> <<2024, 1, 8>>, weight |-> Num(780), activityType |-> Str(<<>>),
     notes |-> Str(<<>>), durationMinutes |-> Null]>>

\* C12: when an entry has a weight, the current weight of the dashboard is the
\* weight of the latest-dated entry with a weight and the total change is the
\* weight of the earliest-dated entry with a weight minus that one; both are
\* absent when no entry has a weight; 2024-01-01: 80 and 2024-01-08: 78 give
\* current weight 78 and total loss 2.0.
C12_DashboardWeights ==
  LET shown == refreshDashboardSummary(entries, today)
      example == refreshDashboardSummary(WeekApart, today)
  IN /\ IF WeightBearing = {}
        THEN shown.currentWeight = Dash /\ shown.totalLoss = Dash
        ELSE \E i, j \in WeightBearing :
               /\ \A k \in WeightBearing :
                    DayOf(entries[j]) <= DayOf(entries[k]) /\ DayOf(entries[k]) <= DayOf(entries[i])
               /\ shown.currentWeight = ToFixed1(entries[i].weight.n)
               /\ shown.totalLoss = ToFixed1(entries[j].weight.n - entries[i].weight.n)
     /\ example.currentWeight = <<"7", "8", ".", "0">>
     /\ example.totalLoss = <<"2", ".", "0">>

\* C12 witness: the earliest entry with a weight has 80, the latest has 75, an
\* entry without a weight is later still, and the dashboard shows 75.0 and 5.0
C12_Witness ==
  /\ refreshDashboardSummary(entries, today) =
       [currentWeight |-> <<"7", "5", ".", "0">>, totalLoss |-> <<"5", ".", "0">>]
  /\ \E i \in 1..Len(entries) :
       ~HasWeight(entries[i]) /\ \A j \in WeightBearing : DayOf(entries[j]) < DayOf(entries[i])

\* C13: a confirmed delete removes the entry it was asked to remove and
\* leaves every other entry as it was; a declined delete and a declined
\* clear-all leave the entries and the settings, in memory and as persisted,
\* as they were.
C13_DeleteRemovesOneEntry ==
  [][/\ \A i \in 1..Len(entries) :
          (last'.op = "deleteEntry" /\ DeleteEntry(i, TRUE))
            => /\ \A j \in 1..Len(entries') : entries'[j].date # entries[i].date
               /\ \A k \in 1..Len(entries) :
                    k # i => \E j \in 1..Len(entries') : entries'[j] = entries[k]
               /\ Len(entries') = Len(entries) - 1
               /\ UNCHANGED userSettings
     /\ (last'.op \in {"deleteEntry", "clearData"} /\ last'.input = "declined")
          => UNCHANGED <<entries, userSettings, storedEntries, storedSettings>>]_vars

\* C13 witness: a delete was confirmed and an entry of another date is left
C13_Witness ==
  /\ last.op = "deleteEntry" /\ last.input = "confirmed"
  /\ Len(entries) = 1
  /\ entries[1].date # last.replaced[1].date

\* The date a form is submitted for
FormDate(form) == IF form.date # <<>> THEN form.date ELSE getTodayDateString(today)

\* The entry of the date d in a list that has one
EntryOf(list, d) == list[CHOOSE i \in 1..Len(list) : list[i].date = d]

\* The weight of the latest-dated entry with a weight on or before the date d,
\* Null when there is none
LatestWeightBefore(d) ==
  LET upTo == {i \in WeightBearing : DayOf(entries[i]) <= dateFromYMD(d, today)}
  IN IF upTo = {} THEN Null
     ELSE entries[CHOOSE i \in upTo : \A j \in upTo : DayOf(entries[j]) <= DayOf(entries[i])].weight

\* C14 as stated: when the form is submitted for a date that has an entry, the
\* entry stored for the date is the one the same submission stores when the
\* old entry is not there: it depends on no field of the entry it replaces.
C14_ReplacementIgnoresOldEntry ==
  [][\A form \in EntryForms :
       (last'.op = "entrySubmit" /\ lastAlert' = "saved" /\ last'.replaced # <<>>
          /\ EntrySubmit(form))
         => EntryOf(entries', FormDate(form)) =
              EntryOf(entrySubmit(form,
                                  MakeStore(WithoutDate(entries, FormDate(form)), userSettings,
                                            storedEntries, storedSettings),
                                  today).store.entries,
                      FormDate(form))]_vars

\* C14 as amended: when the form is submitted for a date that has an entry,
\* the activity, the notes and the duration of the entry stored for the date
\* are those of the form, and its weight is the weight of the form when one is
\* given, else the latest weight recorded on or before the date in the store
\* as it was, the entry that is replaced included.
C14_ReplacementKeepsLatestWeight ==
  [][\A form \in EntryForms :
       (last'.op = "entrySubmit" /\ lastAlert' = "saved" /\ last'.replaced # <<>>
          /\ EntrySubmit(form))
         => LET stored == EntryOf(entries', FormDate(form))
            IN /\ stored.activityType = Str(form.activityType)
               /\ stored.notes = Str(form.notes)
               /\ stored.durationMinutes =
                    (IF IsNumericString(Str(form.duration)) /\ ToNumber(Str(form.duration)).n > 0
                     THEN ToNumber(Str(form.duration)) ELSE Null)
               /\ stored.weight =
                    (IF Trim(form.weight) # <<>> THEN ParseFloat(form.weight)
                     ELSE LatestWeightBefore(FormDate(form)))]_vars

\* C14 witness: a form with no weight has replaced an entry with weight 80 and
\* notes "x", and the entry stored has weight 80 and no notes
C14_Witness ==
  /\ last.op = "entrySubmit" /\ lastAlert = "saved"
  /\ last.replaced # <<>>
  /\ last.replaced[1].weight = Num(800)
  /\ last.replaced[1].notes = Str(<<"x">>)
  /\ EntryOf(entries, last.replaced[1].date).weight = Num(800)
  /\ EntryOf(entries, last.replaced[1].date).notes = Str(<<>>)

\* C15: for an entry with a positive duration, calculateEntryCalories uses the
\* weight of the entry when it is present and positive; when it is absent or
\* not positive it uses getLatestWeightUpToDate(entry.date), and returns null
\* only when that gives no weight.
C15_CaloriesFallBackOnLatestWeight ==
  \A i \in 1..Len(entries) :
    LET e == entries[i]
        c == calculateEntryCalories(e, entries)
        met == getMetForActivity(OrElse(e.activityType, Str(<<>>)))
        latest == getLatestWeightUpToDate(entries, e.date)
    IN (TypeOf(e.durationMinutes) = "number" /\ e.durationMinutes.n > 0)
         => IF HasWeight(e) /\ e.weight.n > 0
            THEN c = Num(met * e.weight.n * e.durationMinutes.n)
            ELSE IF latest = Null THEN c = Null
            ELSE c = Num(met * latest.n * e.durationMinutes.n)

\* C16: the records of one import are applied in the order of the logs array:
\* the entry stored for a date of the import is the coerced form of the last
\* record of that date, whether or not the store had an entry of the date.
C16_LastImportedRecordWins ==
  ImportedJson =>
    \A d \in LogDates(last.logs) :
      /\ \E i \in 1..Len(entries) : entries[i].date = d
      /\ EntryOf(entries, d) = CoerceLog(last.logs[LastLogFor(last.logs, d)])

\* C16 witness: an import held two records of one date that differ, the store
\* had an entry of that date, and the entry stored is that of the second
C16_Witness ==
  /\ ImportedJson
  /\ \E k, m \in 1..Len(last.logs) :
       /\ k < m
       /\ last.logs[k].isObject /\ last.logs[m].isObject
       /\ last.logs[k].date # <<>> /\ last.logs[k].date = last.logs[m].date
       /\ CoerceLog(last.logs[k]) # CoerceLog(last.logs[m])
       /\ \E n \in 1..Len(last.replaced) : last.replaced[n].date = last.logs[m].date
       /\ EntryOf(entries, last.logs[m].date) = CoerceLog(last.logs[m])

\* C17: in every state reached through saves of the settings, imports and
\* clear-all, the heightCm of the settings is absent or a positive number and
\* the weighInDay is absent or an integer from 0 to 6.
C17_SettingsWellFormed ==
  /\ \/ Missing(userSettings.heightCm)
     \/ TypeOf(userSettings.heightCm) = "number" /\ userSettings.heightCm.n > 0
  /\ \/ Missing(userSettings.weighInDay)
     \/ /\ TypeOf(userSettings.weighInDay) = "number"
        /\ userSettings.weighInDay.n \in {10 * k : k \in 0..6}


(***************************************************************************)
(* C18                                                                     *)
(***************************************************************************)
ExportOps ==
  {"exportFullBackupJson", "exportToCsv", "shareSettled", "downloadSettled",
   "clipboardSettled"}

Strategies == <<"share", "download", "clipboard">>

Tried(d, s) == \E i \in 1..Len(d.tried) : d.tried[i] = s

\* The strategies tried so far are in the order share, download, clipboard
InDeliveryOrder(d) ==
  \E keep \in SUBSET (1..3) :
    /\ Len(d.tried) = Cardinality(keep)
    /\ \A i \in 1..Len(d.tried) :
         d.tried[i] = Strategies[CHOOSE k \in keep : Cardinality({j \in keep : j <= k}) = i]

\* What the claim says of a run besides the clipboard: the order, the download
\* only after an unsupported or failed share, nothing after a success
DeliveryStepwise(d) ==
  /\ InDeliveryOrder(d)
  /\ Tried(d, "download") => (~d.shareSupported \/ "share" \in d.failed)
  /\ d.succeeded # "none" =>
       /\ d.stage = "done"
       /\ d.tried # <<>>
       /\ d.tried[Len(d.tried)] = d.succeeded

StoresUnchanged ==
  /\ entries' = entries
  /\ userSettings' = userSettings
  /\ storedEntries' = storedEntries
  /\ storedSettings' = storedSettings

\* C18 as stated: in every export run the strategies are tried in the order
\* share, download, clipboard; the download only if the share is unsupported
\* or failed; the clipboard only if the download failed; nothing is tried
\* after a success; and no step of an export changes the entries or the
\* settings, in memory or persisted.
C18_ClipboardOnlyAfterFailedDownload ==
  [][/\ last'.op \in ExportOps => StoresUnchanged
     /\ DeliveryStepwise(delivery')
     /\ Tried(delivery', "clipboard") => "download" \in delivery'.failed]_vars

\* C18 amended: as above, but the clipboard copy is tried only if the
\* download failed or an error was thrown before the download could start.
C18_DeliveryOrder ==
  [][/\ last'.op \in ExportOps => StoresUnchanged
     /\ DeliveryStepwise(delivery')
     /\ Tried(delivery', "clipboard") =>
          \/ "download" \in delivery'.failed
          \/ delivery'.thrown /\ ~Tried(delivery', "download")]_vars

\* An export of a non-empty store went through all three strategies and ended
\* with the copy
C18_Witness ==
  /\ entries # <<>>
  /\ last.op = "clipboardSettled"
  /\ delivery.tried = Strategies
  /\ delivery.succeeded = "clipboard"


(***************************************************************************)
(* C19                                                                     *)
(***************************************************************************)
\* The list has an entry of the date
HasDate(list, d) == \E i \in 1..Len(list) : list[i].date = d

\* C19: when the read of a chosen file completes, the file is merged into the
\* entries as they are then, not as they were when the file was chosen: an
\* entry added or changed since the choice, for a date that is not in the
\* backup, is in the store after the import as it was before it, and a date
\* whose entry was deleted since the choice has no entry after the import
\* unless the backup has a record of that date.
C19_ImportMergesIntoCurrentStore ==
  [][last'.op = "readerOnload" =>
       /\ \A e \in Records(entries) :
            (e \notin Records(selected') /\ e.date \notin LogDates(last'.logs))
              => e \in Records(entries')
       /\ \A e \in Records(selected') :
            (~HasDate(entries, e.date) /\ e.date \notin LogDates(last'.logs))
              => ~HasDate(entries', e.date)]_vars

\* C19 witness: a backup with a record was read while a quick entry was made
\* for a date the backup does not have, after the file was chosen; the import
\* is done and both dates have an entry
C19_Witness ==
  /\ last.op = "readerOnload" /\ lastAlert = "restoreDone"
  /\ last.logs # <<>>
  /\ \E e \in Records(entries) :
       /\ ~HasDate(selected, e.date)
       /\ e.date \notin LogDates(last.logs)
  /\ \E e \in Records(entries) : e.date \in LogDates(last.logs)


(***************************************************************************)
(* C20                                                                     *)
(***************************************************************************)
\* The last handler was a mutating one and ran to completion
MutationDone ==
  \/ last.op = "entrySubmit" /\ lastAlert = "saved"
  \/ last.op \in {"deleteEntry", "clearData"} /\ last.input = "confirmed"
  \/ last.op = "settingsSubmit"
  \/ last.op \in RestoreOps /\ lastAlert = "restoreDone"

\* C20: after a quick-entry submit, a confirmed delete, a confirmed clear-all,
\* a settings save or a successful import, what is persisted is what is in
\* memory: loading the entries and the settings back from localStorage gives
\* the entries and the settings the page holds.
C20_ReloadReproducesStore ==
  MutationDone =>
    /\ loadEntries(storedEntries) = entries
    /\ loadSettings(storedSettings) = userSettings

=============================================================================
